---------------------------- MODULE Spec2Model ----------------------------
(***************************************************************************)
(* A model of the VAPI end-of-call webhook (tools/vapi_webhook.py) and of  *)
(* the Google-Sheets appender with its failure journal                     *)
(* (tools/sheets_appender.py).                                             *)
(*                                                                         *)
(* Python strings are sequences of one-character strings.  JSON / Python   *)
(* values are records [t, v]: t is the type tag ("absent" for a missing    *)
(* key, "null" for None, "str", "int", "bool", "obj" for a nested          *)
(* list/mapping) and v the characters of the value.  A mapping is a        *)
(* function from AllKeys to such values.                                   *)
(***************************************************************************)
EXTENDS Integers, Sequences, FiniteSets, TLC

VARIABLES
    \* ---- unit harness: one pure function applied to one drawn input
    uop,              \* "idle" | "format" | "resolve" | "validate"
    uin,              \* the drawn input
    uout,             \* the function's result
    \* ---- process configuration (environment variables)
    cfgSecret,        \* VAPI_SECRET_TOKEN: <<>> when unset
    cfgSheetId,       \* SPREADSHEET_ID is set
    \* ---- the request being handled
    pc,               \* position of the handler
    header,           \* X-Vapi-Secret header of the request
    payload,          \* the request body
    customer_number,  \* local of vapi_webhook (line 123)
    call_obj,         \* local of vapi_webhook (line 127)
    attempt,          \* loop variable of fetch_call_from_vapi
    fetchLog,         \* outcome of each fetch of this invocation, in order
    elapsed,          \* time units this invocation of the fetcher has slept
    fetching,         \* time units this invocation has spent inside urlopen
    extracted,        \* structured_data as left by lines 130-144
    structured_data,  \* structured_data after lines 148-160
    validated_data,   \* local of vapi_webhook (line 163)
    attempted,        \* the external append call was entered and how it ended
    exc,              \* the exception caught at line 173, "none" if none
    response,         \* what the request got back
    \* ---- the two stores and the request counter
    sheet,            \* rows of the spreadsheet
    journal,          \* .tmp/sheets_failures.json
    sheet0,           \* the spreadsheet when the current request arrived
    journal0,         \* the journal when the current request arrived
    reqs,             \* requests received so far
    \* ---- worker processes inside log_failure at the same time
    writers,          \* per process: position, local `failures`, `payload`
    lastWriter        \* the process whose json.dump came last, 0 if none

unitVars == <<uop, uin, uout>>
cfgVars  == <<cfgSecret, cfgSheetId>>
reqVars  == <<pc, header, payload, customer_number, call_obj, attempt, fetchLog,
              elapsed, fetching, extracted, structured_data, validated_data, attempted,
              exc, response>>
storeVars == <<sheet, journal, sheet0, journal0, reqs>>
concVars == <<writers, lastWriter>>
vars == <<unitVars, cfgVars, reqVars, storeVars, concVars>>

----------------------------------------------------------------------------
(* Bounds of the model.                                                    *)

MaxDigits == 12       \* longest run of digits in a drawn phone string
MaxWrong == 2         \* fields of a drawn mapping that deviate from the base
MaxRequests == 2      \* requests handled one after another
MaxEntries == 2       \* entries of a drawn structuredOutputs mapping
MaxWriters == 2       \* worker processes journaling a failure at once

----------------------------------------------------------------------------
(* Strings.                                                                *)

Digits == {"0", "1", "2", "3", "4", "5", "6", "7", "8", "9"}

S_unknown == <<"u", "n", "k", "n", "o", "w", "n">>
S_caller  == <<"c", "a", "l", "l", "e", "r">>
S_None    == <<"N", "o", "n", "e">>
S_True    == <<"T", "r", "u", "e">>

\* str.lower() on the letters the drawn strings use
LowerChar(c) ==
    CASE c = "U" -> "u" [] c = "N" -> "n" [] c = "K" -> "k" [] c = "O" -> "o"
      [] c = "W" -> "w" [] c = "C" -> "c" [] c = "A" -> "a" [] c = "L" -> "l"
      [] c = "E" -> "e" [] c = "R" -> "r" [] c = "T" -> "t"
      [] OTHER -> c

Lower(s) == [i \in 1..Len(s) |-> LowerChar(s[i])]

\* Python's `sub in s`
Contains(s, sub) ==
    \E i \in 0..(Len(s) - Len(sub)) : SubSeq(s, i + 1, i + Len(sub)) = sub

\* re.sub(r'\D', '', raw)
StripNonDigits(raw) == SelectSeq(raw, LAMBDA c : c \in Digits)

----------------------------------------------------------------------------
(* format_us_phone, lines 44-53.                                           *)

MinPhoneLen == 7

format_us_phone_keep1(raw) ==
    LET digits == StripNonDigits(raw)
    IN  IF Len(digits) = 10
        THEN <<"(">> \o SubSeq(digits, 1, 3) \o <<")", " ">>
                \o SubSeq(digits, 4, 6) \o <<"-">> \o SubSeq(digits, 7, 10)
        ELSE raw

format_us_phone(raw) ==
    LET stripped == StripNonDigits(raw)
        digits == IF Len(stripped) = 11 /\ stripped[1] = "1"
                  THEN Tail(stripped) ELSE stripped
    IN  IF Len(digits) = 10
        THEN <<"(">> \o SubSeq(digits, 1, 3) \o <<")", " ">>
                \o SubSeq(digits, 4, 6) \o <<"-">> \o SubSeq(digits, 7, 10)
        ELSE raw

----------------------------------------------------------------------------
(* JSON / Python values and mappings.                                      *)

Val(t, v) == [t |-> t, v |-> v]
Absent == Val("absent", <<>>)
Null   == Val("null", <<>>)
Str(s) == Val("str", s)
IntV(s) == Val("int", s)
BoolV(s) == Val("bool", s)
Obj    == Val("obj", <<"{", "}">>)

S_False == <<"F", "a", "l", "s", "e">>

\* str(x)
PyStr(x) == IF x.t = "null" THEN S_None ELSE x.v

\* bool(x): None, "", 0 and False are falsy
Truthy(x) ==
    CASE x.t \in {"absent", "null"} -> FALSE
      [] x.t = "str"  -> x.v # <<>>
      [] x.t = "int"  -> x.v # <<"0">>
      [] x.t = "bool" -> x.v = S_True
      [] OTHER        -> TRUE

\* The Destination Schema, in the column order of append_to_sheet.
Fields == <<"caller_first_name", "caller_last_name", "phone_number", "zip_code",
            "standing_or_leaking_water", "affected_areas_scope",
            "affected_rooms_count", "leak_stopped", "leak_timeline",
            "has_insurance", "call_summary">>

FieldSet == {Fields[i] : i \in 1..Len(Fields)}

FieldType(f) ==
    CASE f \in {"standing_or_leaking_water", "leak_stopped", "has_insurance"} -> "bool"
      [] f = "affected_rooms_count" -> "int"
      [] OTHER -> "str"

ExtraKey == "extra_field"
AllKeys == FieldSet \cup {ExtraKey}

EmptyMap == [k \in AllKeys |-> Absent]

\* d.get(k, default)
Get(d, k, default) == IF d[k].t = "absent" THEN default ELSE d[k]

\* bool(d) of a mapping
NonEmpty(d) == \E k \in AllKeys : d[k].t # "absent"

\* A Python object that is either None or a mapping (or missing altogether).
PyAbsent == [kind |-> "absent", m |-> EmptyMap]
PyNone   == [kind |-> "none", m |-> EmptyMap]
Dict(m)  == [kind |-> "dict", m |-> m]

TruthyObj(o) == o.kind = "dict" /\ NonEmpty(o.m)

----------------------------------------------------------------------------
(* The caller-ID override, lines 148-156.                                  *)

\* line 151 with "caller" forgotten
Untrusted_noCaller(phone_val) ==
    \/ phone_val = <<>>
    \/ Contains(Lower(phone_val), S_unknown)
    \/ Len(phone_val) < MinPhoneLen

\* line 151
Untrusted(phone_val) ==
    \/ phone_val = <<>>
    \/ Contains(Lower(phone_val), S_unknown)
    \/ Contains(Lower(phone_val), S_caller)
    \/ Len(phone_val) < MinPhoneLen

\* lines 153-154: customer_number after the fallback to the call object
TelecomNumber(payloadNumber, resourceNumber) ==
    IF ~Truthy(payloadNumber) THEN resourceNumber ELSE payloadNumber

\* lines 149-156: structured_data after the override
ResolvePhone(sd, payloadNumber, resourceNumber) ==
    LET phone_val == PyStr(Get(sd, "phone_number", Str(<<>>)))
        number == TelecomNumber(payloadNumber, resourceNumber)
    IN  IF Untrusted(phone_val) /\ Truthy(number)
        THEN [sd EXCEPT !["phone_number"] = number]
        ELSE sd

----------------------------------------------------------------------------
(* The pydantic model VAPICallData and its model_dump(), lines 28-41, 163. *)
(* The field types are `str | None`, `int | None` and `bool | None` with   *)
(* extra='ignore'; validation is pydantic's default (lax) mode.            *)

BoolWords == { <<"t","r","u","e">>, <<"f","a","l","s","e">>, <<"y","e","s">>,
               <<"n","o">>, <<"o","n">>, <<"o","f","f">>, <<"1">>, <<"0">>,
               <<"t">>, <<"f">>, <<"y">>, <<"n">> }

AllDigits(s) == s # <<>> /\ \A i \in 1..Len(s) : s[i] \in Digits

Accept(x) == [ok |-> TRUE, val |-> x]
Reject    == [ok |-> FALSE, val |-> Null]

\* one field of the model: the value it stores, or a validation error
Coerce(type, x) ==
    CASE x.t \in {"absent", "null"} -> Accept(Null)
      [] type = "str" ->
            IF x.t = "str" THEN Accept(x) ELSE Reject
      [] type = "int" ->
            CASE x.t = "int"  -> Accept(x)
              [] x.t = "bool" -> Accept(IntV(IF x.v = S_True THEN <<"1">> ELSE <<"0">>))
              [] x.t = "str" /\ AllDigits(x.v) -> Accept(IntV(x.v))
              [] OTHER -> Reject
      [] OTHER ->
            CASE x.t = "bool" -> Accept(x)
              [] x.t = "int" /\ x.v \in {<<"0">>, <<"1">>} ->
                    Accept(BoolV(IF x.v = <<"1">> THEN S_True ELSE S_False))
              [] x.t = "str" /\ Lower(x.v) \in BoolWords ->
                    Accept(BoolV(IF Lower(x.v) \in {<<"t","r","u","e">>, <<"y","e","s">>,
                                                     <<"o","n">>, <<"1">>, <<"t">>, <<"y">>}
                                 THEN S_True ELSE S_False))
              [] OTHER -> Reject

NoRecord == [f \in {} |-> Null]

\* the validated record, or ok = FALSE for pydantic's ValidationError
VAPICallData(m) ==
    LET c == [f \in FieldSet |-> Coerce(FieldType(f), m[f])]
    IN  IF \A f \in FieldSet : c[f].ok
        THEN [ok |-> TRUE, rec |-> [f \in FieldSet |-> c[f].val]]
        ELSE [ok |-> FALSE, rec |-> NoRecord]

----------------------------------------------------------------------------
(* Inputs drawn for the pure functions.                                    *)

RECURSIVE Flatten(_)
Flatten(ss) == IF ss = <<>> THEN <<>> ELSE Head(ss) \o Flatten(Tail(ss))

PatternDigits == <<"5", "5", "2", "3", "4", "6", "7", "8", "9", "0", "2", "3", "4">>

\* n digits, the first of them `lead`
DigitRun(n, lead) ==
    IF n = 0 THEN <<>>
    ELSE <<lead>> \o [i \in 1..(n - 1) |-> PatternDigits[((i - 1) % Len(PatternDigits)) + 1]]

Styles == {"plain", "plus", "dashes", "parens"}

\* the digits d written the way people write phone numbers
Decorate(d, style) ==
    CASE style = "plus"   -> <<"+">> \o d
      [] style = "dashes" ->
            Flatten([i \in 1..Len(d) |->
                       IF i % 3 = 0 /\ i < Len(d) THEN <<d[i], "-">> ELSE <<d[i]>>])
      [] style = "parens" ->
            IF Len(d) >= 3
            THEN <<"(">> \o SubSeq(d, 1, 3) \o <<")", " ">> \o SubSeq(d, 4, Len(d))
            ELSE d
      [] OTHER -> d

Words == { <<"u","n","k","n","o","w","n"," ","c","a","l","l","e","r">>,
           <<"U","n","k","n","o","w","n">>,
           <<"U","N","K","N","O","W","N"," ","5","5","5","1","2","3","4","5","6","7">>,
           <<"C","A","L","L","E","R"," ","I","D">>,
           <<"t","h","e"," ","c","a","l","l","e","r","5","5","5","2","3","4","6","7","8","9">>,
           <<"c","a","l","l"," ","m","e">>,
           <<"n","o","t"," ","k","n","o","w","n">>,
           <<"n","/","a">> }

PhoneRaws ==
    Words \cup { Decorate(DigitRun(n, lead), style) :
                    n \in 0..MaxDigits, lead \in {"1", "5"}, style \in Styles }

PayloadNumber  == <<"+", "1", "5", "5", "5", "1", "2", "3", "4", "5", "6", "7">>
ResourceNumber == <<"+", "1", "5", "5", "5", "9", "8", "7", "6", "5", "4", "3">>

PayloadNumbers  == {Null, Str(<<>>), Str(PayloadNumber)}
ResourceNumbers == {Null, Str(ResourceNumber)}

AiCandidates == {Absent, Null} \cup {Str(s) : s \in PhoneRaws}

S_Ann == <<"A", "n", "n">>
S_Lee == <<"L", "e", "e">>
S_zip == <<"9", "0", "2", "1", "0">>
S_txt == <<"k", "i", "t", "c", "h", "e", "n">>
S_phone == <<"5", "5", "5", "2", "3", "4", "6", "7", "8", "9">>

\* a complete, well-typed extraction whose phone is `phone`
FullMap(phone) ==
    [k \in AllKeys |->
        CASE k = "caller_first_name" -> Str(S_Ann)
          [] k = "caller_last_name" -> Str(S_Lee)
          [] k = "phone_number" -> phone
          [] k = "zip_code" -> Str(S_zip)
          [] k = "affected_rooms_count" -> IntV(<<"3">>)
          [] FieldType(k) = "bool" /\ k # ExtraKey -> BoolV(S_True)
          [] k = ExtraKey -> Absent
          [] OTHER -> Str(S_txt)]

DeviantValues == {Absent, Null, Str(S_txt), Str(<<"2">>), IntV(<<"7">>), BoolV(S_False), Obj}

\* `base` with the keys of S set to the values g gives them
Deviant(base, S, g) == [k \in AllKeys |-> IF k \in S THEN g[k] ELSE base[k]]

\* the sets of at most MaxWrong keys
DeviantKeys == {T \in SUBSET AllKeys : Cardinality(T) <= MaxWrong}

BaseMaps == {FullMap(Str(S_phone)), EmptyMap}

----------------------------------------------------------------------------
(* The harness that applies one pure function to one drawn input.          *)


ApplyFormat ==
    /\ uop = "idle" /\ uin.k = "phone"
    /\ uop' = "format"
    /\ uout' = format_us_phone(uin.x)
    /\ UNCHANGED <<uin, concVars, cfgVars, reqVars, storeVars>>

ApplyResolve ==
    /\ uop = "idle" /\ uin.k = "resolve"
    /\ uop' = "resolve"
    /\ uout' = ResolvePhone([EmptyMap EXCEPT !["phone_number"] = uin.x.ai],
                            uin.x.p, uin.x.r)["phone_number"]
    /\ UNCHANGED <<uin, concVars, cfgVars, reqVars, storeVars>>

ApplyValidate ==
    /\ uop = "idle" /\ uin.k = "map"
    /\ uop' = "validate"
    /\ uout' = VAPICallData(uin.x)
    /\ UNCHANGED <<uin, concVars, cfgVars, reqVars, storeVars>>

----------------------------------------------------------------------------
(* The call resource of the origin platform, as json.loads returns it.     *)
(*   analysis : "absent" | "null" | "dict"                                 *)
(*   so       : analysis.structuredOutputs, an ordered mapping of entries  *)
(*   sd       : analysis.structuredData                                    *)
(*   number   : customer.number                                            *)

SO(kind, entries) == [kind |-> kind, entries |-> entries]
SOAbsent == SO("absent", <<>>)
Entry(isDict, result) == [dict |-> isDict, result |-> result]

Resource(analysis, so, sd, number) ==
    [analysis |-> analysis, so |-> so, sd |-> sd, number |-> number]

\* {} (line 96)
EmptyResource == Resource("absent", SOAbsent, PyAbsent, Null)

\* analysis.get("structuredOutputs", {}) when analysis is a mapping
StructuredOutputs(res) == IF res.analysis = "absent" THEN SOAbsent ELSE res.so

\* analysis.get("structuredData", {})
StructuredData(res) ==
    IF res.analysis = "absent" \/ res.sd.kind = "absent" THEN Dict(EmptyMap) ELSE res.sd

\* `structured_outputs and isinstance(structured_outputs, dict)`
IsPopulatedDict(so) == so.kind = "dict" /\ so.entries # <<>>

\* lines 72-79: "ready" when the fetcher returns, "empty" when it goes on to
\* sleep 5, "raise" when the test itself raises (None.get, line 73 or 76)
FetcherCheck(res) ==
    IF res.analysis = "null" THEN "raise"
    ELSE LET structured_outputs == StructuredOutputs(res)
         IN  IF IsPopulatedDict(structured_outputs)
             THEN LET first == structured_outputs.entries[1]
                  IN  IF ~first.dict THEN "raise"
                      ELSE IF TruthyObj(first.result) THEN "ready" ELSE "empty"
             ELSE "empty"

\* lines 136-140: the first truthy result in iteration order
RECURSIVE FirstResult(_)
FirstResult(entries) ==
    IF entries = <<>> THEN [raise |-> FALSE, sd |-> Dict(EmptyMap)]
    ELSE IF ~Head(entries).dict THEN [raise |-> TRUE, sd |-> Dict(EmptyMap)]
    ELSE IF TruthyObj(Head(entries).result)
         THEN [raise |-> FALSE, sd |-> Head(entries).result]
         ELSE FirstResult(Tail(entries))

\* lines 130-144: structured_data, or raise = TRUE when a lookup raises
Extract(res) ==
    IF res.analysis = "null" THEN [raise |-> TRUE, sd |-> Dict(EmptyMap)]
    ELSE LET structured_outputs == StructuredOutputs(res)
             got == IF IsPopulatedDict(structured_outputs)
                    THEN FirstResult(structured_outputs.entries)
                    ELSE [raise |-> FALSE, sd |-> Dict(EmptyMap)]
         IN  IF got.raise THEN got
             ELSE IF ~TruthyObj(got.sd)
                  THEN [raise |-> FALSE, sd |-> StructuredData(res)]
                  ELSE got

----------------------------------------------------------------------------
(* Call resources drawn for the extractor and for the endpoint.            *)

S_unknown_caller == <<"u","n","k","n","o","w","n"," ","c","a","l","l","e","r">>

MGood    == FullMap(Str(S_phone))
MUnknown == FullMap(Str(S_unknown_caller))
MBadZip  == [MGood EXCEPT !["zip_code"] = IntV(S_zip)]
MIntPhone == FullMap(IntV(S_phone))
MExtra   == [MGood EXCEPT ![ExtraKey] = Str(S_txt)]
MShort   == [EmptyMap EXCEPT !["call_summary"] = Str(S_txt)]

SeqsUpTo(S, n) == UNION { [1..k -> S] : k \in 1..n }

DrawnResults == {PyAbsent, PyNone, Dict(EmptyMap), Dict(MGood), Dict(MUnknown)}
DrawnEntries == {Entry(FALSE, PyAbsent)} \cup {Entry(TRUE, r) : r \in DrawnResults}
DrawnSOs ==
    {SOAbsent, SO("null", <<>>), SO("list", <<>>), SO("dict", <<>>)}
        \cup {SO("dict", es) : es \in SeqsUpTo(DrawnEntries, MaxEntries)}
DrawnSDs == {PyAbsent, PyNone, Dict(EmptyMap), Dict(MGood), Dict(MShort)}

DrawnResources ==
    {EmptyResource, Resource("null", SOAbsent, PyAbsent, Null)}
        \cup {Resource("dict", so, sd, Null) : so \in DrawnSOs, sd \in DrawnSDs}

One(m) == SO("dict", <<Entry(TRUE, Dict(m))>>)

\* the resources the origin platform answers the endpoint's fetches with
EndpointResources ==
    { Resource("dict", One(MGood), PyAbsent, Null),
      Resource("dict", One(MUnknown), PyAbsent, Str(ResourceNumber)),
      Resource("dict", One(MBadZip), PyAbsent, Null),
      Resource("dict", One(MIntPhone), PyAbsent, Null),
      Resource("dict", One(MExtra), Dict(MShort), Null),
      Resource("dict", SO("dict", <<Entry(TRUE, Dict(EmptyMap))>>), Dict(MGood), Null),
      Resource("dict", SO("dict", <<Entry(FALSE, PyAbsent)>>), PyAbsent, Null),
      Resource("dict", SO("dict", <<>>), Dict(EmptyMap), Str(ResourceNumber)),
      Resource("dict", SOAbsent, PyNone, Null),
      Resource("null", SOAbsent, PyAbsent, Null),
      EmptyResource }

ApplyExtract ==
    /\ uop = "idle" /\ uin.k = "resource"
    /\ uop' = "extract"
    /\ uout' = [extract |-> Extract(uin.x), check |-> FetcherCheck(uin.x)]
    /\ UNCHANGED <<uin, concVars, cfgVars, reqVars, storeVars>>

----------------------------------------------------------------------------
(* The stores: the spreadsheet and the failure journal.                    *)

\* lines 40-54 of sheets_appender.py: data.get(column, default) per column
Row(data) == [i \in 1..Len(Fields) |-> data[Fields[i]]]

Journal(exists, kind, entries) == [exists |-> exists, kind |-> kind, entries |-> entries]
NoJournal == Journal(FALSE, "list", <<>>)

JournalEntry(timestamp, error, data) ==
    [timestamp |-> timestamp, error |-> error, data |-> data]

\* log_failure, lines 77-105: the journal file afterwards, or raise = TRUE
\* when failures.append raises because the file held JSON that is no list
log_failure(file, data, error_message, now) ==
    LET payload_ == JournalEntry(now, error_message, data)
    IN  IF file.exists /\ file.kind = "nonlist"
        THEN [raise |-> TRUE, file |-> file]
        ELSE LET failures == IF file.exists /\ file.kind = "list"
                             THEN file.entries ELSE <<>>
             IN  [raise |-> FALSE,
                  file |-> Journal(TRUE, "list", Append(failures, payload_))]

----------------------------------------------------------------------------
(* The webhook endpoint, vapi_webhook (lines 105-175), one action per      *)
(* step, with get_api_key (lines 21-25) ahead of it.                       *)

MaxAttempts == 3      \* range(3), line 64
EmptyBackoff == 5     \* time.sleep(5), line 82
ErrorBackoff == 3     \* time.sleep(3), line 86
FetchTimeout == 10    \* urlopen(req, timeout=10), lines 68 and 93


Secret == <<"s", "3", "c", "r", "e", "t">>
Headers == {Null, Str(Secret), Str(<<"w", "r", "o", "n", "g">>)}

\* the request body: what request.json() and the lookups of lines 112-123 see
Payload(kind, hasId, number) == [kind |-> kind, hasId |-> hasId, number |-> number]
NoPayload == Payload("none", FALSE, Null)
Payloads ==
    { Payload("invalid", FALSE, Null),          \* no JSON object
      Payload("status-update", TRUE, Str(PayloadNumber)),
      Payload("end-of-call-report", FALSE, Str(PayloadNumber)),
      Payload("end-of-call-report", TRUE, Null),
      Payload("end-of-call-report", TRUE, Str(PayloadNumber)) }

FetchError == [ok |-> FALSE, res |-> EmptyResource]
Fetched(res) == [ok |-> TRUE, res |-> res]

\* how long the urlopen of a fetch takes: no time to speak of when it
\* answers or fails at once, the whole timeout when it fails by timing out
FetchTimes(f) == IF f.ok THEN {0} ELSE {0, FetchTimeout}

\* the steps without the try block of lines 108-173 around the body parse
TryCovers_notParse == {"ids", "fetch", "extract", "phone", "validate", "persist"}

\* the steps of the handler inside the try block of lines 108-173
TryCovers == {"parse", "ids", "fetch", "extract", "phone", "validate", "persist"}

\* an exception e raised in `step`
Raise(step, e) ==
    /\ exc' = e
    /\ IF step \in TryCovers
       THEN pc' = "catch" /\ response' = response
       ELSE pc' = "done" /\ response' = "500"

\* the locals of a request that has not started
ResetLocals ==
    /\ customer_number' = Null
    /\ call_obj' = EmptyResource
    /\ attempt' = 0
    /\ fetchLog' = <<>>
    /\ elapsed' = 0
    /\ fetching' = 0
    /\ extracted' = PyAbsent
    /\ structured_data' = EmptyMap
    /\ validated_data' = NoRecord
    /\ attempted' = "none"
    /\ exc' = "none"
    /\ response' = "none"

\* a request arrives
Receive ==
    /\ pc \in {"idle", "done"}
    /\ reqs < MaxRequests
    /\ reqs' = reqs + 1
    /\ \E h \in Headers, p \in Payloads : header' = h /\ payload' = p
    /\ pc' = "auth"
    /\ ResetLocals
    /\ sheet0' = sheet /\ journal0' = journal
    /\ UNCHANGED <<unitVars, concVars, cfgVars, sheet, journal>>

\* line 23 without the `vapi_secret and` guard
Rejects_unguarded(secret, h) == h # Str(secret)

\* line 23
Rejects(secret, h) == secret # <<>> /\ h # Str(secret)

\* lines 21-25
get_api_key ==
    /\ pc = "auth"
    /\ IF Rejects(cfgSecret, header)
       THEN pc' = "done" /\ response' = "401"
       ELSE pc' = "parse" /\ response' = response
    /\ UNCHANGED <<unitVars, concVars, cfgVars, storeVars, header, payload, customer_number,
                   call_obj, attempt, fetchLog, elapsed, fetching, extracted,
                   structured_data, validated_data, attempted, exc>>

\* line 113 with every event type let through
Ignores_never(p) == FALSE

\* line 113: `if message_type != "end-of-call-report"`
Ignores(p) == p.kind # "end-of-call-report"

\* lines 109-114
Filter ==
    /\ pc = "parse"
    /\ IF payload.kind = "invalid"
       THEN Raise("parse", "AttributeError")
       ELSE /\ exc' = exc
            /\ IF Ignores(payload)
               THEN pc' = "done" /\ response' = "ignored"
               ELSE pc' = "ids" /\ response' = response
    /\ UNCHANGED <<unitVars, concVars, cfgVars, storeVars, header, payload, customer_number,
                   call_obj, attempt, fetchLog, elapsed, fetching, extracted,
                   structured_data, validated_data, attempted>>

\* lines 117-123
ResolveIdentifiers ==
    /\ pc = "ids"
    /\ IF ~payload.hasId
       THEN pc' = "done" /\ response' = "error" /\ customer_number' = customer_number
       ELSE pc' = "fetch" /\ response' = response /\ customer_number' = payload.number
    /\ UNCHANGED <<unitVars, concVars, cfgVars, storeVars, header, payload,
                   call_obj, attempt, fetchLog, elapsed, fetching, extracted,
                   structured_data, validated_data, attempted, exc>>

\* lines 84-86 with the exception let through
AttemptOutcome_propagate(f) ==
    IF ~f.ok \/ FetcherCheck(f.res) = "raise" THEN "raise" ELSE FetcherCheck(f.res)

\* lines 65-86: how one attempt of the loop ends
AttemptOutcome(f) ==
    IF ~f.ok \/ FetcherCheck(f.res) = "raise" THEN "fail" ELSE FetcherCheck(f.res)

\* the loop runs once more than range(3)
LoopDone_offByOne(n) == n > MaxAttempts

\* line 64: the loop is over
LoopDone(n) == n >= MaxAttempts

\* fetch_call_from_vapi, lines 64-86: one attempt of the retry loop
fetch_attempt(R) ==
    /\ pc = "fetch"
    /\ ~LoopDone(attempt)
    /\ \E f \in {FetchError} \cup {Fetched(r) : r \in R} : \E d \in FetchTimes(f) :
         LET outcome == AttemptOutcome(f)
         IN  /\ fetchLog' = Append(fetchLog, outcome)
             /\ fetching' = fetching + d
             /\ CASE outcome = "ready" ->
                       /\ call_obj' = f.res /\ pc' = "extract"
                       /\ UNCHANGED <<attempt, elapsed, exc, response>>
                  [] outcome = "raise" ->
                       /\ Raise("fetch", "URLError")
                       /\ UNCHANGED <<call_obj, attempt, elapsed>>
                  [] OTHER ->
                       /\ attempt' = attempt + 1
                       /\ elapsed' = elapsed + (IF outcome = "empty"
                                                THEN EmptyBackoff ELSE ErrorBackoff)
                       /\ UNCHANGED <<call_obj, pc, exc, response>>
    /\ UNCHANGED <<unitVars, concVars, cfgVars, storeVars, header, payload, customer_number,
                   extracted, structured_data, validated_data, attempted>>

\* fetch_call_from_vapi, lines 88-96: the final, unconditional fetch
fetch_final(R) ==
    /\ pc = "fetch"
    /\ LoopDone(attempt)
    /\ \E f \in {FetchError} \cup {Fetched(r) : r \in R} : \E d \in FetchTimes(f) :
         /\ fetchLog' = Append(fetchLog, IF f.ok THEN "got" ELSE "fail")
         /\ call_obj' = IF f.ok THEN f.res ELSE EmptyResource
         /\ fetching' = fetching + d
    /\ pc' = "extract"
    /\ UNCHANGED <<unitVars, concVars, cfgVars, storeVars, header, payload,
                   customer_number, attempt, elapsed, extracted, structured_data,
                   validated_data, attempted, exc, response>>


\* lines 130-146; the fetcher has returned and its locals are gone
ExtractStep ==
    /\ pc = "extract"
    /\ attempt' = 0 /\ fetchLog' = <<>> /\ elapsed' = 0 /\ fetching' = 0
    /\ LET got == Extract(call_obj)
       IN  IF got.raise
           THEN Raise("extract", "AttributeError") /\ extracted' = extracted
           ELSE /\ extracted' = got.sd
                /\ pc' = "phone"
                /\ UNCHANGED <<exc, response>>
    /\ UNCHANGED <<unitVars, concVars, cfgVars, storeVars, header, payload, customer_number,
                   call_obj, structured_data, validated_data, attempted>>

\* lines 159-160 left out: the phone is written back as resolved
NormalizePhone_skip(sd) == [raise |-> FALSE, sd |-> sd]

\* lines 159-160: raise = TRUE for the TypeError of re.sub on a non-string
NormalizePhone(sd) ==
    LET phone == Get(sd, "phone_number", Null)
    IN  IF ~Truthy(phone) THEN [raise |-> FALSE, sd |-> sd]
        ELSE IF phone.t # "str" THEN [raise |-> TRUE, sd |-> sd]
        ELSE [raise |-> FALSE,
              sd |-> [sd EXCEPT !["phone_number"] = Str(format_us_phone(phone.v))]]

\* lines 148-160
PhoneStep ==
    /\ pc = "phone"
    /\ IF extracted.kind # "dict"
       THEN /\ Raise("phone", "AttributeError")
            /\ UNCHANGED <<structured_data, customer_number>>
       ELSE LET resolved == ResolvePhone(extracted.m, customer_number, call_obj.number)
                phone_val == PyStr(Get(extracted.m, "phone_number", Str(<<>>)))
                done == NormalizePhone(resolved)
            IN  /\ customer_number' =
                      IF Untrusted(phone_val)
                      THEN TelecomNumber(customer_number, call_obj.number)
                      ELSE customer_number
                /\ IF done.raise
                   THEN Raise("phone", "TypeError") /\ structured_data' = resolved
                   ELSE /\ structured_data' = done.sd
                        /\ pc' = "validate"
                        /\ UNCHANGED <<exc, response>>
    /\ UNCHANGED <<unitVars, concVars, cfgVars, storeVars, header, payload, call_obj, attempt,
                   fetchLog, elapsed, fetching, extracted, validated_data, attempted>>

\* line 163
ValidateStep ==
    /\ pc = "validate"
    /\ LET model == VAPICallData(structured_data)
       IN  IF ~model.ok
           THEN Raise("validate", "ValidationError") /\ validated_data' = validated_data
           ELSE /\ validated_data' = model.rec
                /\ pc' = "persist"
                /\ UNCHANGED <<exc, response>>
    /\ UNCHANGED <<unitVars, concVars, cfgVars, storeVars, header, payload, customer_number,
                   call_obj, attempt, fetchLog, elapsed, fetching, extracted, structured_data,
                   attempted>>

\* how the external call (get_sheets_service and values().append().execute(),
\* lines 37-66) can end: the row is appended, or an exception and no row;
\* every exception, the FileNotFoundError of line 19 too, lands at line 71
AppendOutcomes == {"ok", "HttpError"}

\* line 33: `if not spreadsheet_id`
MissingSheetId(configured) == ~configured

\* lines 168-171
StatusOf(success) == IF success THEN "success" ELSE "partial_failure"

\* lines 166-171 with append_to_sheet (sheets_appender.py, lines 24-75) and
\* log_failure (lines 77-105)
append_to_sheet ==
    /\ pc = "persist"
    /\ IF MissingSheetId(cfgSheetId)
       THEN /\ Raise("persist", "ValueError")
            /\ UNCHANGED <<sheet, journal, attempted>>
       ELSE \E outcome \in AppendOutcomes :
              /\ attempted' = outcome
              /\ IF outcome = "ok"
                 THEN /\ sheet' = Append(sheet, Row(validated_data))
                      /\ journal' = journal
                      /\ pc' = "done" /\ response' = StatusOf(TRUE) /\ exc' = exc
                 ELSE LET logged == log_failure(journal, validated_data, outcome, reqs)
                      IN  /\ sheet' = sheet
                          /\ journal' = logged.file
                          /\ IF logged.raise
                             THEN Raise("persist", "AttributeError")
                             ELSE pc' = "done" /\ response' = StatusOf(FALSE) /\ exc' = exc
    /\ UNCHANGED <<unitVars, concVars, cfgVars, sheet0, journal0, reqs, header, payload,
                   customer_number, call_obj, attempt, fetchLog, elapsed, fetching, extracted,
                   structured_data, validated_data>>

\* lines 173-175
Catch ==
    /\ pc = "catch"
    /\ pc' = "done"
    /\ response' = "error"
    /\ UNCHANGED <<unitVars, concVars, cfgVars, storeVars, header, payload, customer_number,
                   call_obj, attempt, fetchLog, elapsed, fetching, extracted, structured_data,
                   validated_data, attempted, exc>>

----------------------------------------------------------------------------
(* Specifications.                                                         *)

PriorEntry == JournalEntry(0, "HttpError", VAPICallData(MShort).rec)

\* what .tmp/sheets_failures.json can hold when the process starts
InitialJournals ==
    { NoJournal, Journal(TRUE, "garbage", <<>>), Journal(TRUE, "nonlist", <<>>),
      Journal(TRUE, "list", <<PriorEntry>>) }

IdleRequest(at) ==
    /\ pc = at
    /\ header = Null /\ payload = NoPayload
    /\ customer_number = Null
    /\ call_obj = EmptyResource
    /\ attempt = 0 /\ fetchLog = <<>> /\ elapsed = 0 /\ fetching = 0
    /\ extracted = PyAbsent
    /\ structured_data = EmptyMap
    /\ validated_data = NoRecord
    /\ attempted = "none" /\ exc = "none" /\ response = "none"

Init ==
    /\ uop = "off" /\ uin = <<>> /\ uout = <<>>
    /\ cfgSecret \in {<<>>, Secret}
    /\ cfgSheetId \in BOOLEAN
    /\ IdleRequest("idle")
    /\ sheet = <<>>
    /\ journal \in InitialJournals
    /\ sheet0 = sheet /\ journal0 = journal
    /\ reqs = 0
    /\ writers = <<>> /\ lastWriter = 0

Next ==
    \/ Receive
    \/ get_api_key
    \/ Filter
    \/ ResolveIdentifiers
    \/ fetch_attempt(EndpointResources)
    \/ fetch_final(EndpointResources)
    \/ ExtractStep
    \/ PhoneStep
    \/ ValidateStep
    \/ append_to_sheet
    \/ Catch

Spec == Init /\ [][Next]_vars

\* the inputs drawn for format_us_phone, the caller-ID override and the
\* extractor
UnitInputs(k) ==
    CASE k = "phone" -> PhoneRaws
      [] k = "resolve" -> [ai : AiCandidates, p : PayloadNumbers, r : ResourceNumbers]
      [] OTHER -> DrawnResources

\* the pure functions, each applied to every drawn input
UnitInit ==
    /\ uop = "idle" /\ uout = <<>>
    /\ \/ \E k \in {"phone", "resolve", "resource"} :
            \E x \in UnitInputs(k) : uin = [k |-> k, x |-> x]
       \/ \E base \in BaseMaps, S \in DeviantKeys :
            \E g \in [S -> DeviantValues] :
               uin = [k |-> "map", x |-> Deviant(base, S, g)]
    /\ cfgSecret = <<>> /\ cfgSheetId = TRUE
    /\ IdleRequest("off")
    /\ sheet = <<>> /\ journal = NoJournal
    /\ sheet0 = sheet /\ journal0 = journal
    /\ reqs = 0
    /\ writers = <<>> /\ lastWriter = 0

UnitNext == ApplyFormat \/ ApplyResolve \/ ApplyValidate \/ ApplyExtract

SpecUnit == UnitInit /\ [][UnitNext]_vars

----------------------------------------------------------------------------
(* log_failure (sheets_appender.py, lines 77-105) step by step, run by     *)
(* several worker processes whose spreadsheet append failed.  Nothing in   *)
(* the code locks the journal file.                                        *)

Writers == 1..MaxWriters

\* the local `failures`: a list, or what json.load gave when that is no list
Failures(kind, entries) == [kind |-> kind, entries |-> entries]

NoEntry == JournalEntry(0, "none", NoRecord)

Writer(at, failures, payload_) == [pc |-> at, failures |-> failures, payload |-> payload_]

\* the file right after open(failure_file, 'w') of line 104: truncated
EmptyFile == Journal(TRUE, "empty", <<>>)

At(w, at) == writers # <<>> /\ writers[w].pc = at

\* lines 79-89: the entry, stamped with the time of line 86
BuildPayload(w) ==
    /\ At(w, "start")
    /\ writers' = [writers EXCEPT ![w] =
          Writer("exists", @.failures,
                 JournalEntry(reqs, "HttpError", VAPICallData(MGood).rec))]
    /\ reqs' = reqs + 1
    /\ UNCHANGED <<unitVars, cfgVars, reqVars, sheet, journal, sheet0, journal0,
                   lastWriter>>

\* lines 93 and 99-100: os.path.exists
CheckExists(w) ==
    /\ At(w, "exists")
    /\ writers' = [writers EXCEPT ![w] =
          IF journal.exists
          THEN Writer("load", @.failures, @.payload)
          ELSE Writer("append", Failures("list", <<>>), @.payload)]
    /\ UNCHANGED <<unitVars, cfgVars, reqVars, storeVars, lastWriter>>

\* lines 94-98: json.load of what the file holds at this moment; a file
\* deleted since line 93 does not occur, nothing deletes it
LoadJournal(w) ==
    /\ At(w, "load")
    /\ writers' = [writers EXCEPT ![w] =
          Writer("append",
                 CASE journal.kind = "list" -> Failures("list", journal.entries)
                   [] journal.kind = "nonlist" -> Failures("nonlist", <<>>)
                   [] OTHER -> Failures("list", <<>>),
                 @.payload)]
    /\ UNCHANGED <<unitVars, cfgVars, reqVars, storeVars, lastWriter>>

\* line 102: failures.append(payload), AttributeError on a non-list
AppendEntry(w) ==
    /\ At(w, "append")
    /\ writers' = [writers EXCEPT ![w] =
          IF @.failures.kind = "nonlist"
          THEN Writer("raised", @.failures, @.payload)
          ELSE Writer("open", Failures("list", Append(@.failures.entries, @.payload)),
                      @.payload)]
    /\ UNCHANGED <<unitVars, cfgVars, reqVars, storeVars, lastWriter>>

\* line 104: open(..., 'w') truncates the file
OpenForWrite(w) ==
    /\ At(w, "open")
    /\ writers' = [writers EXCEPT ![w].pc = "dump"]
    /\ journal' = EmptyFile
    /\ UNCHANGED <<unitVars, cfgVars, reqVars, sheet, sheet0, journal0, reqs,
                   lastWriter>>

\* what the file holds once this process has written `failures` from
\* offset 0 and closed it.  When another process has written a longer text
\* since this one truncated the file, the rest of that text stays behind
\* this one and the file no longer parses; `entries` of such a file keeps
\* the longer list, for its length only.  The entries of the concurrent
\* requests are equally long, so the longer text is the one of more entries.
DumpOutcome(file, failures) ==
    IF Len(file.entries) > Len(failures.entries)
    THEN Journal(TRUE, "garbage", file.entries)
    ELSE Journal(TRUE, "list", failures.entries)

\* line 105 and the close of the with block
DumpJournal(w) ==
    /\ At(w, "dump")
    /\ writers' = [writers EXCEPT ![w].pc = "done"]
    /\ journal' = DumpOutcome(journal, writers[w].failures)
    /\ lastWriter' = w
    /\ UNCHANGED <<unitVars, cfgVars, reqVars, sheet, sheet0, journal0, reqs>>

ConcInit ==
    /\ uop = "off" /\ uin = <<>> /\ uout = <<>>
    /\ cfgSecret = <<>> /\ cfgSheetId = TRUE
    /\ IdleRequest("off")
    /\ sheet = <<>>
    /\ journal \in InitialJournals
    /\ sheet0 = sheet /\ journal0 = journal
    /\ reqs = 1
    /\ writers = [w \in Writers |-> Writer("start", Failures("list", <<>>), NoEntry)]
    /\ lastWriter = 0

ConcNext ==
    \E w \in Writers :
        \/ BuildPayload(w)
        \/ CheckExists(w)
        \/ LoadJournal(w)
        \/ AppendEntry(w)
        \/ OpenForWrite(w)
        \/ DumpJournal(w)

SpecConc == ConcInit /\ [][ConcNext]_vars

----------------------------------------------------------------------------
(* The claims.                                                             *)

\* the request at hand passed authentication and has been answered
Answered == pc = "done" /\ response # "401"

\* the request at hand was an end-of-call-report with a call identifier
Processed == Answered /\ payload.kind = "end-of-call-report" /\ payload.hasId

AppendFailed == attempted \in AppendOutcomes \ {"ok"}

InSheetOnly ==
    /\ sheet = Append(sheet0, Row(validated_data))
    /\ journal = journal0

InJournalOnly ==
    /\ sheet = sheet0
    /\ journal.exists /\ journal.kind = "list"
    /\ Len(journal.entries) = 1 + (IF journal0.exists /\ journal0.kind = "list"
                                   THEN Len(journal0.entries) ELSE 0)
    /\ journal.entries[Len(journal.entries)].data = validated_data

\* C1: once the handling of an authenticated end-of-call-report with a call
\* identifier is over, the record extracted for it is in exactly one of the
\* two stores: one new spreadsheet row, or one new journal entry.  Stated
\* for the records that passed validation, the ones handed to the appender.
C1_ExactlyOneStore ==
    (Processed /\ validated_data # NoRecord) =>
        /\ InSheetOnly \/ InJournalOnly
        /\ ~(InSheetOnly /\ InJournalOnly)

\* C2: every request that passed authentication gets a normal response body,
\* "error" whenever an exception reached the top level; none escapes.
C2_NoExceptionEscapes ==
    /\ response # "500"
    /\ Answered =>
          /\ response \in {"ignored", "error", "success", "partial_failure"}
          /\ exc # "none" => response = "error"
    /\ pc = "catch" => exc # "none"

C2_Witness ==
    /\ Answered /\ response = "error"
    /\ exc = "AttributeError" /\ payload.kind = "invalid"

\* C3: when the external append failed, the endpoint answers
\* "partial_failure" and the journal is a list whose last entry holds the
\* validated record that was attempted.
C3_FailureJournalled ==
    (pc = "done" /\ AppendFailed) =>
        /\ response = "partial_failure"
        /\ journal.exists /\ journal.kind = "list"
        /\ journal.entries # <<>>
        /\ journal.entries[Len(journal.entries)].data = validated_data

RECURSIVE CountOf(_, _)
CountOf(log, x) ==
    IF log = <<>> THEN 0
    ELSE (IF Head(log) = x THEN 1 ELSE 0) + CountOf(Tail(log), x)

FetcherReturned == pc = "extract"

\* some structuredOutputs entry of the resource holds a non-empty result
OutputsPopulated(res) ==
    /\ res.analysis = "dict" /\ res.so.kind = "dict"
    /\ \E i \in 1..Len(res.so.entries) :
          res.so.entries[i].dict /\ TruthyObj(res.so.entries[i].result)

\* analysis.structuredData of the resource is a non-empty mapping
DataPopulated(res) == res.analysis = "dict" /\ TruthyObj(res.sd)

\* C4: the fetcher returns at the first attempt that finds a result, makes at
\* most 3 attempts, and fetches a fourth and last time exactly when all 3
\* found nothing; no fetch follows a non-empty result.
C4_BoundedFetchProtocol ==
    /\ Len(fetchLog) <= 4
    /\ \A i \in 1..Len(fetchLog) :
          /\ fetchLog[i] = "ready" =>
                i <= 3 /\ i = Len(fetchLog) /\ FetcherReturned
                       /\ OutputsPopulated(call_obj)
          /\ i <= 3 => fetchLog[i] \in {"ready", "empty", "fail"}
          /\ i = 4 => fetchLog[i] \in {"got", "fail"} /\ FetcherReturned
    /\ FetcherReturned =>
          \/ fetchLog[Len(fetchLog)] = "ready"
          \/ Len(fetchLog) = 4 /\ \A i \in 1..3 : fetchLog[i] \in {"empty", "fail"}
    /\ pc = "fetch" => Len(fetchLog) <= 3 /\ Len(fetchLog) = attempt

C4_Witness ==
    /\ FetcherReturned
    /\ fetchLog = <<"empty", "empty", "empty", "got">>
    /\ ~OutputsPopulated(call_obj)

\* C5: no failure of a fetch leaves the fetcher: a failed attempt counts as
\* an empty one followed by a 3-unit wait (5 after an empty one), and when
\* the final fetch fails too the fetcher returns the empty resource.
C5_FetcherNeverRaises ==
    /\ exc # "URLError"
    /\ pc \in {"fetch", "extract"} =>
          /\ exc = "none"
          /\ LET loop == SubSeq(fetchLog, 1, IF Len(fetchLog) > 3 THEN 3 ELSE Len(fetchLog))
             IN  elapsed = 5 * CountOf(loop, "empty") + 3 * CountOf(loop, "fail")
    /\ (FetcherReturned /\ Len(fetchLog) = 4 /\ fetchLog[4] = "fail") =>
          call_obj = EmptyResource

C5_Witness ==
    /\ FetcherReturned
    /\ fetchLog = <<"fail", "fail", "fail", "fail">>
    /\ elapsed = 9
    /\ call_obj = EmptyResource

\* the resource has the shape of the data model: analysis, when present, is
\* a mapping, and so is every entry of structuredOutputs
WellFormed(res) ==
    /\ res.analysis # "null"
    /\ \A i \in 1..Len(res.so.entries) : res.so.entries[i].dict

\* C6: when the fetcher returned a resource without structured data in
\* either shape, the request is answered "success" or "partial_failure".
C6_EmptyResourceTolerated ==
    (/\ Processed /\ WellFormed(call_obj)
     /\ ~OutputsPopulated(call_obj) /\ ~DataPopulated(call_obj)) =>
        response \in {"success", "partial_failure"}

\* C7: the extractor yields the structuredOutputs result when one is
\* populated (also when structuredData is), else the structuredData mapping
\* when that is populated, else the empty mapping, and never raises.
C7_ExtractorPrecedence ==
    (uop = "extract" /\ WellFormed(uin.x)) =>
        LET res == uin.x
            first == CHOOSE i \in 1..Len(res.so.entries) :
                        /\ TruthyObj(res.so.entries[i].result)
                        /\ \A j \in 1..(i - 1) : ~TruthyObj(res.so.entries[j].result)
        IN  /\ ~uout.extract.raise
            /\ uout.extract.sd =
                  IF OutputsPopulated(res) THEN res.so.entries[first].result
                  ELSE IF DataPopulated(res) THEN res.sd
                  ELSE Dict(EmptyMap)

\* the candidate as a string: nothing when the AI gave none
CandidateText(ai) == IF ai.t = "str" THEN ai.v ELSE <<>>

\* C8: the AI candidate gives way to the first available telecom candidate
\* (the payload's number, else the call resource's) exactly when it is empty,
\* contains "unknown" or "caller" in any case, or is under 7 characters.
C8_CallerIdRule ==
    uop = "resolve" =>
        LET text == CandidateText(uin.x.ai)
            weak == \/ text = <<>>
                    \/ Len(text) < 7
                    \/ \E w \in {S_unknown, S_caller} :
                          \E i \in 1..Len(text) :
                             /\ i + Len(w) - 1 <= Len(text)
                             /\ \A j \in 1..Len(w) : LowerChar(text[i + j - 1]) = w[j]
            telecom == IF uin.x.p.t = "str" /\ uin.x.p.v # <<>> THEN uin.x.p ELSE uin.x.r
        IN  /\ (weak /\ telecom.t = "str") => uout = telecom
            /\ ~weak => uout = uin.x.ai

C8_Witness ==
    /\ uop = "resolve"
    /\ uin.x.ai = Str(<<"C","A","L","L","E","R"," ","I","D">>)
    /\ uin.x.p = Str(<<>>)
    /\ uout = Str(ResourceNumber)

C10_ValidatorTotal ==
    uop = "validate" =>
        /\ uout.ok
        /\ DOMAIN uout.rec = FieldSet

\* the record is what the request at hand left in a store: the row appended
\* to the spreadsheet, or the data of the entry appended to the journal
Persisted(rec) ==
    \/ attempted = "ok" /\ sheet = Append(sheet0, Row(rec))
    \/ /\ AppendFailed
       /\ journal.exists /\ journal.kind = "list" /\ journal.entries # <<>>
       /\ journal.entries[Len(journal.entries)].data = rec

\* C11: the phone persisted for a request is the normalizer applied to the
\* resolver's output: the normalized customer number of the payload when the
\* AI-extracted phone is untrustworthy and the payload carries one
\* ("unknown caller" with +15551234567 persists (555) 123-4567), and the
\* normalized AI phone when that is trustworthy.
C11_PersistedPhone ==
    (pc = "done" /\ response \in {"success", "partial_failure"}) =>
        LET ai == Get(extracted.m, "phone_number", Null)
            weak == Untrusted(CandidateText(ai))
        IN  /\ Persisted(validated_data)
            /\ (weak /\ Truthy(payload.number)) =>
                  validated_data["phone_number"] = Str(format_us_phone(payload.number.v))
            /\ ~weak =>
                  validated_data["phone_number"] = Str(format_us_phone(ai.v))
            /\ (ai = Str(S_unknown_caller) /\ payload.number = Str(PayloadNumber)) =>
                  validated_data["phone_number"] =
                     Str(<<"(", "5", "5", "5", ")", " ", "1", "2", "3", "-",
                           "4", "5", "6", "7">>)

C11_Witness ==
    /\ pc = "done" /\ attempted = "ok"
    /\ Get(extracted.m, "phone_number", Null) = Str(S_unknown_caller)
    /\ payload.number = Str(PayloadNumber)
    /\ sheet # <<>>
    /\ sheet[Len(sheet)] = Row([validated_data EXCEPT !["phone_number"] =
          Str(<<"(", "5", "5", "5", ")", " ", "1", "2", "3", "-", "4", "5", "6", "7">>)])

\* the request at hand carries an event that is not an end-of-call-report,
\* or an end-of-call-report without a call identifier
ShortCircuits ==
    /\ payload.kind \notin {"none", "invalid"}
    /\ payload.kind # "end-of-call-report" \/ ~payload.hasId

\* C12: a request whose event is not an end-of-call-report is answered
\* "ignored", and an end-of-call-report without a call identifier is
\* answered "error" with no exception raised; neither ever reaches the
\* fetcher or the appender, and both stores stay as the request found them.
C12_ShortCircuitNoEffect ==
    ShortCircuits =>
        /\ pc \in {"auth", "parse", "ids", "done"}
        /\ fetchLog = <<>> /\ call_obj = EmptyResource
        /\ attempted = "none" /\ exc = "none"
        /\ sheet = sheet0 /\ journal = journal0
        /\ Answered =>
              response = IF payload.kind # "end-of-call-report"
                         THEN "ignored" ELSE "error"

C12_Witness ==
    /\ ShortCircuits /\ Answered
    /\ payload.kind = "end-of-call-report" /\ response = "error"
    /\ sheet # <<>> /\ sheet = sheet0

\* C13: with a shared secret configured, a request whose header is absent or
\* differs from it is answered 401 before anything else runs: no fetch, no
\* append, no journal write.  With no secret configured no request is
\* answered 401, whatever its header.  No other step rejects: a 401 is only
\* ever the answer to a bad header, and no request ends in another HTTP
\* error.
C13_AuthenticationGate ==
    /\ (pc # "idle" /\ pc # "auth" /\ cfgSecret # <<>> /\ header # Str(cfgSecret)) =>
          /\ pc = "done" /\ response = "401"
          /\ fetchLog = <<>> /\ call_obj = EmptyResource
          /\ attempted = "none" /\ exc = "none"
          /\ sheet = sheet0 /\ journal = journal0
    /\ cfgSecret = <<>> => response # "401"
    /\ response = "401" => cfgSecret # <<>> /\ header # Str(cfgSecret)
    /\ pc = "done" => response \in {"401", "ignored", "error", "success",
                                     "partial_failure"}

C13_Witness ==
    /\ pc = "done" /\ response = "401"
    /\ cfgSecret = Secret /\ header = Null
    /\ payload = Payload("end-of-call-report", TRUE, Str(PayloadNumber))
    /\ sheet # <<>> /\ sheet = sheet0 /\ journal = journal0

\* the entries a journal file holds: those of the list it parses to, none
\* when the file is missing or holds no list
EntriesOf(file) ==
    IF file.exists /\ file.kind = "list" THEN file.entries ELSE <<>>

\* C14: over requests handled one after another the journal only grows at
\* its end: a request whose spreadsheet append failed leaves it as the list
\* of its previous entries followed by exactly one new entry {timestamp,
\* error, data} for the record at hand, a request whose append succeeded
\* leaves it unchanged, and at no step is an earlier entry removed,
\* rewritten or moved.
C14_JournalAppendOnly ==
    /\ Len(EntriesOf(journal0)) <= Len(EntriesOf(journal))
    /\ SubSeq(EntriesOf(journal), 1, Len(EntriesOf(journal0))) = EntriesOf(journal0)
    /\ (pc = "done" /\ AppendFailed) =>
          journal = Journal(TRUE, "list",
                            Append(EntriesOf(journal0),
                                   JournalEntry(reqs, attempted, validated_data)))
    /\ (pc = "done" /\ attempted = "ok") => journal = journal0

\* every process has left log_failure
AllReturned ==
    /\ writers # <<>>
    /\ \A w \in Writers : writers[w].pc \in {"done", "raised"}

\* C15: when the journal writes of concurrent requests interleave, the
\* journal left behind is a list that holds the entry of the process that
\* wrote last and every entry the journal held before they started; only
\* entries of the other concurrent requests can be missing.
C15_LastWriterWins ==
    (AllReturned /\ journal0.kind # "nonlist") =>
        /\ journal.exists /\ journal.kind = "list"
        /\ lastWriter \in Writers
        /\ \E j \in 1..Len(journal.entries) :
              journal.entries[j] = writers[lastWriter].payload
        /\ \A i \in 1..Len(EntriesOf(journal0)) :
              \E j \in 1..Len(journal.entries) :
                 journal.entries[j] = EntriesOf(journal0)[i]

\* lines 133-140 on their own: what the endpoint extracts from
\* analysis.structuredOutputs, before the structuredData fallback
OutputsRecord(res) ==
    IF IsPopulatedDict(StructuredOutputs(res))
    THEN FirstResult(StructuredOutputs(res).entries).sd
    ELSE Dict(EmptyMap)

\* C16: for every call resource the fetcher's check finds a result (and the
\* fetcher returns early) exactly when the endpoint's extraction of
\* analysis.structuredOutputs from that resource yields a non-empty record,
\* also when structuredOutputs holds several entries and the first one's
\* result is empty.
C16_CheckIsExtractorStep ==
    (uop = "extract" /\ WellFormed(uin.x)) =>
        (uout.check = "ready" <=> TruthyObj(OutputsRecord(uin.x)))

\* C17: the resolved phone is the AI candidate when that is trustworthy,
\* else the first available telecom candidate, else empty: an untrustworthy
\* AI candidate with no customer number in the payload nor in the call
\* resource resolves to no phone.
C17_ResolverOutput ==
    uop = "resolve" =>
        LET weak == Untrusted(CandidateText(uin.x.ai))
            telecom == IF Truthy(uin.x.p) THEN uin.x.p ELSE uin.x.r
        IN  IF ~weak THEN uout = uin.x.ai
            ELSE IF Truthy(telecom) THEN uout = telecom
            ELSE ~Truthy(uout)

\* the default the destination schema defines for a field of the type
SchemaDefault(type) ==
    CASE type = "bool" -> BoolV(S_False)
      [] type = "int" -> IntV(<<"0">>)
      [] OTHER -> Str(<<>>)

\* C18: a schema field absent from the extracted record is stored with its
\* default, in the appended row (11 columns in schema order) and in the
\* journaled record: the empty string, 0 for the affected-rooms count,
\* false for a boolean field.
C18_AbsentFieldsDefaulted ==
    (pc = "done" /\ response \in {"success", "partial_failure"}) =>
        /\ attempted = "ok" => Len(sheet[Len(sheet)]) = Len(Fields)
        /\ \A i \in 1..Len(Fields) :
              structured_data[Fields[i]] = Absent =>
                 LET default == SchemaDefault(FieldType(Fields[i]))
                 IN  IF attempted = "ok"
                     THEN sheet[Len(sheet)][i] = default
                     ELSE journal.entries[Len(journal.entries)].data[Fields[i]] = default

\* C19: when the journal file is missing or does not hold a list
\* (unparseable text, or JSON of another type), journaling a failure raises
\* nothing and leaves a list whose single entry is the new one.
C19_CorruptJournalTolerated ==
    (/\ pc \in {"catch", "done"} /\ AppendFailed
     /\ ~(journal0.exists /\ journal0.kind = "list")) =>
        /\ exc = "none"
        /\ journal = Journal(TRUE, "list",
                             <<JournalEntry(reqs, attempted, validated_data)>>)

\* C20: from entering the fetcher to its return a request is blocked for at
\* most 15 time units, the backoff waits (5 after an empty attempt, 3 after
\* a failed one) and the time inside the fetches (each at most the 10-unit
\* timeout) counted together.
C20_FetcherBlocksAtMost15 ==
    pc \in {"fetch", "extract"} => elapsed + fetching <= 15

=============================================================================
